---- MODULE Spec2Model ----
(***************************************************************************)
(* The LP/MIP teaching notebooks of bs10081/OR as a state machine.         *)
(*                                                                         *)
(* Each notebook is a straight-line Python program over one gurobipy       *)
(* Model: gp.Model(..), addVar.., setObjective, addConstr.., optimize(),   *)
(* and the report cell (if model.status == GRB.OPTIMAL: print .. else ..). *)
(* A problem instance is one kernel: its Model object, the Python names    *)
(* the addVar statements bind, and the text the report cell printed.       *)
(*                                                                         *)
(* Numbers.  The decimal literals of the notebooks have one fractional     *)
(* digit, so a coefficient or right-hand side is kept as an integer number *)
(* of tenths.  A variable value is a rational with denominator at most     *)
(* MaxDen, kept as an integer number of 1/L, L the least common multiple   *)
(* of 1..MaxDen.  An objective value is then an integer number of 1/(10L). *)
(***************************************************************************)
EXTENDS Integers, Sequences, FiniteSets, TLC

VARIABLES
    pc,      \* instance -> index of the next statement (notebooks) / calls made (client)
    model,   \* instance -> the gurobipy Model object (NoModel before gp.Model)
    env,     \* instance -> Python namespace: identifier -> index of the Var it is bound to, 0 unbound
    out,     \* instance -> the lines the report cell printed
    last     \* instance -> the last statement executed, its outcome, the Model before it

vars == <<pc, model, env, out, last>>

(***************************** bounds **************************************)
\* Values of continuous variables are searched in [0, MaxX].
MaxX == 12
\* Values are rationals with denominator at most MaxDen.
MaxDen == 2
\* Components of a recession direction are searched in 0..MaxDir.
MaxDir == 1
\* Fractional digits the float formatting develops.
MaxDigits == 16
\* API calls the free client makes.
MaxCalls == 6

(***************************** arithmetic **********************************)
RECURSIVE Gcd(_, _)
Gcd(a, b) == IF b = 0 THEN a ELSE Gcd(b, a % b)

RECURSIVE LcmUpTo(_)
LcmUpTo(n) == IF n <= 1 THEN 1 ELSE LET l == LcmUpTo(n - 1) IN (l * n) \div Gcd(l, n)

\* Value unit: a value v stands for v / L.
L == LcmUpTo(MaxDen)

\* The values k/L in [0, MaxX] whose reduced denominator is at most MaxDen.
GridVals == {k \in 0..(MaxX * L) : \E d \in 1..MaxDen : (k * d) % L = 0}

RECURSIVE SumOver(_, _)
\* Sum of f[j] over the finite set S of its domain.
SumOver(f, S) ==
    IF S = {} THEN 0
    ELSE LET j == CHOOSE j \in S : TRUE IN f[j] + SumOver(f, S \ {j})

(***************************** Python floats *******************************)
RECURSIVE FracDigits(_, _, _)
\* The decimal digits of r/den (0 <= r < den), developed until the remainder
\* is 0 or n digits are out.
FracDigits(r, den, n) ==
    IF r = 0 \/ n = 0 THEN ""
    ELSE ToString((r * 10) \div den) \o FracDigits((r * 10) % den, den, n - 1)

\* str(float(num/den)) for num >= 0, as the f-strings of the report cells
\* format x1.x and model.objVal: "2.0", "7.5", "5.25".
FloatStr(num, den) ==
    LET f == FracDigits(num % den, den, MaxDigits)
    IN ToString(num \div den) \o "." \o (IF f = "" THEN "0" ELSE f)

(***************************** gurobipy objects ****************************)
Idents == {"x1", "x2", "y1", "y2"}

\* A linear expression as the notebooks write it: Python identifier ->
\* coefficient (tenths), plus a constant (tenths).
EmptyTerms == [id \in {} |-> 0]
Lin(t) == [terms |-> t, const |-> 0]
Num(c) == [terms |-> EmptyTerms, const |-> c]

\* GRB.MINIMIZE is the sense of a Model no setObjective has touched.
DefaultObjective == [terms |-> EmptyTerms, const |-> 0, sense |-> "MINIMIZE"]

\* model before gp.Model(..) has run.
NoModel == [created |-> FALSE, name |-> "", vars |-> <<>>, obj |-> DefaultObjective,
            constrs |-> <<>>, status |-> "LOADED", x |-> <<>>, objVal |-> 0]

\* gp.Model(name)
NewModel(name) == [NoModel EXCEPT !.created = TRUE, !.name = name]

EmptyEnv == [id \in Idents |-> 0]

\* Identifiers of an expression that no addVar statement has bound yet:
\* evaluating the expression raises NameError before the call is made.
Unbound(e, expr) == {id \in DOMAIN expr.terms : e[id] = 0}

\* The expression over the Vars its identifiers are bound to.
Resolve(e, expr) ==
    LET idx == {e[id] : id \in DOMAIN expr.terms}
    IN [j \in idx |-> SumOver(expr.terms, {id \in DOMAIN expr.terms : e[id] = j})]

\* Coefficient of Var j in resolved terms t.
Coef(t, j) == IF j \in DOMAIN t THEN t[j] ELSE 0

\* An addVar that drops the upper bound it is given.
NewVarUpperDropped(name, vtype, lb, hasUb, ub) ==
    [name |-> name, vtype |-> vtype, lb |-> lb, hasUb |-> vtype = "BINARY",
     ub |-> IF vtype = "BINARY" THEN 1 ELSE 0]

\* The Var object addVar creates.  A BINARY Var has bounds [0, 1] (the solver
\* log of the Radiation notebook: "Bounds range [1e+00, 1e+00]").
NewVar(name, vtype, lb, hasUb, ub) ==
    IF vtype = "BINARY"
    THEN [name |-> name, vtype |-> vtype, lb |-> IF lb > 0 THEN lb ELSE 0,
          hasUb |-> TRUE, ub |-> IF hasUb /\ ub < 1 THEN ub ELSE 1]
    ELSE [name |-> name, vtype |-> vtype, lb |-> lb, hasUb |-> hasUb, ub |-> ub]

\* ident = model.addVar(name=.., vtype=.., lb=.., ub=..): the Var is appended
\* and the identifier bound to it.  The name is a label: nothing looks it up.
addVar(m, e, c) ==
    [model  |-> [m EXCEPT !.vars = Append(@, NewVar(c.name, c.vtype, c.lb, c.hasUb, c.ub))],
     env    |-> [e EXCEPT ![c.ident] = Len(m.vars) + 1],
     raised |-> ""]

\* A setObjective that keeps the sense the Model already has.
setObjectiveKeepsSense(m, e, c) ==
    IF Unbound(e, c.expr) # {}
    THEN [model |-> m, env |-> e, raised |-> "NameError"]
    ELSE [model  |-> [m EXCEPT !.obj = [terms |-> Resolve(e, c.expr),
                                        const |-> c.expr.const,
                                        sense |-> m.obj.sense]],
          env    |-> e,
          raised |-> ""]

\* model.setObjective(expr, sense)
setObjective(m, e, c) ==
    IF Unbound(e, c.expr) # {}
    THEN [model |-> m, env |-> e, raised |-> "NameError"]
    ELSE [model  |-> [m EXCEPT !.obj = [terms |-> Resolve(e, c.expr),
                                        const |-> c.expr.const,
                                        sense |-> c.sense]],
          env    |-> e,
          raised |-> ""]

\* A row that subtracts the left side from the right and keeps the relation.
RowReversed(e, lhs, op, rhs, name) ==
    LET l == Resolve(e, lhs)
        r == Resolve(e, rhs)
    IN [terms |-> [j \in (DOMAIN l) \cup (DOMAIN r) |-> Coef(r, j) - Coef(l, j)],
        op    |-> op,
        rhs   |-> rhs.const - lhs.const,
        name  |-> name]

\* The row a TempConstr lhs op rhs becomes: variables to the left, constant
\* to the right.
Row(e, lhs, op, rhs, name) ==
    LET l == Resolve(e, lhs)
        r == Resolve(e, rhs)
    IN [terms |-> [j \in (DOMAIN l) \cup (DOMAIN r) |-> Coef(l, j) - Coef(r, j)],
        op    |-> op,
        rhs   |-> rhs.const - lhs.const,
        name  |-> name]

\* An addConstr that builds and appends the row over the identifiers that
\* are bound before it raises for the others.
addConstrPartial(m, e, c) ==
    LET known(x) == [terms |-> [id \in (DOMAIN x.terms) \ Unbound(e, x) |-> x.terms[id]],
                     const |-> x.const]
    IN [model  |-> [m EXCEPT !.constrs =
                        Append(@, Row(e, known(c.lhs), c.rel, known(c.rhs), c.name))],
        env    |-> e,
        raised |-> IF Unbound(e, c.lhs) \cup Unbound(e, c.rhs) # {} THEN "NameError" ELSE ""]

\* model.addConstr(lhs op rhs, name=..): the row is appended.  The name is a
\* label: nothing looks it up.
addConstr(m, e, c) ==
    IF Unbound(e, c.lhs) \cup Unbound(e, c.rhs) # {}
    THEN [model |-> m, env |-> e, raised |-> "NameError"]
    ELSE [model  |-> [m EXCEPT !.constrs = Append(@, Row(e, c.lhs, c.rel, c.rhs, c.name))],
          env    |-> e,
          raised |-> ""]


(***************************** the solver **********************************)
\* The values (in 1/L) a Var may take: its bounds, the search box, and 0/1
\* for a BINARY Var.
Dom(v) ==
    IF v.vtype = "BINARY"
    THEN {k \in {0, L} : v.lb * L <= k /\ k <= v.ub * L}
    ELSE {k \in GridVals : v.lb * L <= k /\ (v.hasUb => k <= v.ub * L)}

RECURSIVE Assignments(_, _)
\* Every assignment of a value to the first n Vars of vs.
Assignments(vs, n) ==
    IF n = 0 THEN {<<>>}
    ELSE {Append(a, k) : a \in Assignments(vs, n - 1), k \in Dom(vs[n])}

\* Value of resolved terms t at assignment a, in 1/(10 L).
Eval(t, a) == SumOver([j \in DOMAIN t |-> t[j] * a[j]], DOMAIN t)

Holds(lhs, op, rhs) ==
    CASE op = "<=" -> lhs <= rhs
      [] op = ">=" -> lhs >= rhs
      [] op = "==" -> lhs = rhs

\* a satisfies every row of m.
Feasible(m, a) ==
    \A i \in 1..Len(m.constrs) :
        Holds(Eval(m.constrs[i].terms, a), m.constrs[i].op, m.constrs[i].rhs * L)

FeasibleSet(m) == {a \in Assignments(m.vars, Len(m.vars)) : Feasible(m, a)}

\* Objective of m at a, in 1/(10 L).
ObjAt(m, a) == Eval(m.obj.terms, a) + m.obj.const * L

\* v is at least as good as w for the sense of m.
NoWorse(m, v, w) == IF m.obj.sense = "MAXIMIZE" THEN v >= w ELSE v <= w

RECURSIVE Directions(_, _)
\* Directions in which the first n Vars may grow for ever: a Var with an
\* upper bound (a BINARY one too) does not move.
Directions(vs, n) ==
    IF n = 0 THEN {<<>>}
    ELSE {Append(d, k) : d \in Directions(vs, n - 1),
                         k \in IF vs[n].hasUb THEN {0} ELSE 0..MaxDir}

\* d keeps every row satisfied and improves the objective without end.
ImprovingRay(m, d) ==
    /\ \A i \in 1..Len(m.constrs) : Holds(Eval(m.constrs[i].terms, d), m.constrs[i].op, 0)
    /\ IF m.obj.sense = "MAXIMIZE" THEN Eval(m.obj.terms, d) > 0
                                   ELSE Eval(m.obj.terms, d) < 0

\* The least (low) or greatest (~low) of the integers S.
Extreme(S, low) == CHOOSE u \in S : \A w \in S : IF low THEN u <= w ELSE u >= w

RECURSIVE Corner(_, _, _, _)
\* Of the assignments B (over n Vars), the one that is least (low) or
\* greatest (~low) in the order of the Vars, decided from the j-th Var on.
Corner(B, n, j, low) ==
    IF j > n THEN CHOOSE a \in B : TRUE
    ELSE CHOOSE c \in {Corner(C, n, j + 1, low) :
                        C \in {{a \in B : a[j] = v} : v \in {Extreme({b[j] : b \in B}, low)}}} : TRUE

\* The best feasible assignments the solver may return.  Among several of
\* equal objective the solver is free; the two ends of the tie stand for
\* its choice.
Optima(m, F, best) ==
    UNION {{Corner(B, Len(m.vars), 1, TRUE), Corner(B, Len(m.vars), 1, FALSE)} :
                B \in {{b \in F : ObjAt(m, b) = best}}}

\* The best of the objective values vals for the sense of m.
Best(m, vals) == CHOOSE v \in vals : \A w \in vals : NoWorse(m, v, w)

\* The answers for m, F being its feasible assignments.
ResultsOn(m, F) ==
    IF F = {}
    THEN {[status |-> "INFEASIBLE", x |-> <<>>, objVal |-> 0]}
    ELSE IF \E d \in Directions(m.vars, Len(m.vars)) : ImprovingRay(m, d)
    THEN {[status |-> "UNBOUNDED", x |-> <<>>, objVal |-> 0]}
    ELSE UNION {{[status |-> "OPTIMAL", x |-> a, objVal |-> best] : a \in Optima(m, F, best)} :
                    best \in {Best(m, vals) : vals \in {{ObjAt(m, a) : a \in F}}}}

\* What the solver may answer for m: INFEASIBLE when no assignment satisfies
\* the rows, UNBOUNDED when the objective improves for ever along a ray, else
\* OPTIMAL with one of the best feasible assignments and its objective.
SolveResults(m) == UNION {ResultsOn(m, F) : F \in {FeasibleSet(m)}}

\* model.optimize() with the solver answering r.
optimize(m, r) == [m EXCEPT !.status = r.status, !.x = r.x, !.objVal = r.objVal]


(***************************** the report cell *****************************)
\* Why reading <ident>.x fails, "" when it does not: the identifier is not
\* bound, or the Model holds no solution (the attribute X is not available).
ReadError(m, e, id) ==
    IF e[id] = 0 THEN "NameError"
    ELSE IF m.status # "OPTIMAL" THEN "AttributeError"
    ELSE ""

\* print(f"<text>{<ident>.x}")
ValueLine(m, e, s) == s.text \o FloatStr(m.x[e[s.ident]], L)

\* print(f"<text>{model.objVal}")
ObjLine(m, text) == text \o FloatStr(m.objVal, 10 * L)

RECURSIVE PrintValues(_, _, _, _)
\* The print statements of the optimal branch from the k-th on: the lines
\* printed, and the error that stopped them ("" when all ran).
PrintValues(m, e, c, k) ==
    IF k > Len(c.shown)
    THEN IF m.status # "OPTIMAL"
         THEN [lines |-> <<>>, raised |-> "AttributeError"]
         ELSE [lines |-> <<ObjLine(m, c.objText)>>, raised |-> ""]
    ELSE IF ReadError(m, e, c.shown[k].ident) # ""
         THEN [lines |-> <<>>, raised |-> ReadError(m, e, c.shown[k].ident)]
         ELSE LET rest == PrintValues(m, e, c, k + 1)
              IN [lines |-> <<ValueLine(m, e, c.shown[k])>> \o rest.lines,
                  raised |-> rest.raised]

\* A report cell that prints the values whatever the status.
StatusIgnored(m) == TRUE

\* A report cell that asks whether a solve has run, not how it ended.
IsSolved(m) == m.status # "LOADED"

\* The branch the report cell takes.
IsOptimal(m) == m.status = "OPTIMAL"

\* if model.status == GRB.OPTIMAL: print("Optimal solution found:"), one line
\* per variable, the objective; else: print("No optimal solution found.")
report(m, e, c) ==
    IF IsOptimal(m)
    THEN LET p == PrintValues(m, e, c, 1)
         IN [out |-> <<"Optimal solution found:">> \o p.lines, raised |-> p.raised]
    ELSE [out |-> <<"No optimal solution found.">>, raised |-> ""]

(***************************** the two notebooks ***************************)
\* A decimal literal w.t of the notebooks, in tenths.
Lit(w, t) == w * 10 + t

\* M = 10  # Large constant
M == 10

ContinuousVar(id) ==
    [op |-> "addVar", ident |-> id, name |-> id, vtype |-> "CONTINUOUS",
     lb |-> 0, hasUb |-> FALSE, ub |-> 0]

BinaryVar(id) ==
    [op |-> "addVar", ident |-> id, name |-> id, vtype |-> "BINARY",
     lb |-> 0, hasUb |-> FALSE, ub |-> 0]

Constr(lhs, o, rhs, name) ==
    [op |-> "addConstr", lhs |-> lhs, rel |-> o, rhs |-> rhs, name |-> name]

\* A linking constraint written without its constant: x <= y.
LinkingWithoutM(x, y, name) == Constr(Lin(x :> Lit(1, 0)), "<=", Lin(y :> Lit(1, 0)), name)

\* model.addConstr(x <= M * y, name=..)
Linking(x, y, name) == Constr(Lin(x :> Lit(1, 0)), "<=", Lin(y :> Lit(M, 0)), name)

\* wyndor_glass_co_uses_gurobi_for_linear_programming_problems.ipynb
WyndorVariables == << ContinuousVar("x1"), ContinuousVar("x2") >>

\* An objective parallel to the Plant 3 constraint.
WyndorObjectiveParallel ==
    [op |-> "setObjective", expr |-> Lin([x1 |-> Lit(3, 0), x2 |-> Lit(2, 0)]),
     sense |-> "MAXIMIZE"]

\* The objective with the wrong sense.
WyndorObjectiveMinimized ==
    [op |-> "setObjective", expr |-> Lin([x1 |-> Lit(3, 0), x2 |-> Lit(5, 0)]),
     sense |-> "MINIMIZE"]

WyndorObjective ==
    [op |-> "setObjective", expr |-> Lin([x1 |-> Lit(3, 0), x2 |-> Lit(5, 0)]),
     sense |-> "MAXIMIZE"]

WyndorConstraints ==
    << Constr(Lin([x1 |-> Lit(1, 0)]), "<=", Num(Lit(4, 0)), "Plant1_Capacity"),
       Constr(Lin([x2 |-> Lit(2, 0)]), "<=", Num(Lit(12, 0)), "Plant2_Capacity"),
       Constr(Lin([x1 |-> Lit(3, 0), x2 |-> Lit(2, 0)]), "<=", Num(Lit(18, 0)),
              "Plant3_Capacity") >>

WyndorReport ==
    [op |-> "report",
     shown |-> << [ident |-> "x1", text |-> "  x1 (Product 1 batches per week) = "],
                  [ident |-> "x2", text |-> "  x2 (Product 2 batches per week) = "] >>,
     objText |-> "  Maximum Profit (in thousands of dollars) = "]

\* The notebook with its last addConstr statement run after optimize.
WyndorProgramLateConstraint ==
    << [op |-> "Model", name |-> "Wyndor_Glass_Co"] >>
    \o WyndorVariables \o << WyndorObjective >> \o SubSeq(WyndorConstraints, 1, 2)
    \o << [op |-> "optimize"], WyndorConstraints[3], WyndorReport >>

WyndorProgram ==
    << [op |-> "Model", name |-> "Wyndor_Glass_Co"] >>
    \o WyndorVariables \o << WyndorObjective >> \o WyndorConstraints
    \o << [op |-> "optimize"], WyndorReport >>

\* Radiation Therapy Treatment Optimization using Gurobi.ipynb
RadiationVariables ==
    << ContinuousVar("x1"), ContinuousVar("x2"), BinaryVar("y1"), BinaryVar("y2") >>

\* The objective with its two coefficients exchanged.
RadiationObjectiveSwapped ==
    [op |-> "setObjective", expr |-> Lin([x1 |-> Lit(0, 5), x2 |-> Lit(0, 4)]),
     sense |-> "MINIMIZE"]

RadiationObjective ==
    [op |-> "setObjective", expr |-> Lin([x1 |-> Lit(0, 4), x2 |-> Lit(0, 5)]),
     sense |-> "MINIMIZE"]

\* The constraints with Constraint3 given the relation of Constraint1.
RadiationConstraintsLoose ==
    << Constr(Lin([x1 |-> Lit(0, 3), x2 |-> Lit(0, 1)]), "<=", Num(Lit(2, 7)), "Constraint1"),
       Constr(Lin([x1 |-> Lit(0, 5), x2 |-> Lit(0, 5)]), "==", Num(Lit(6, 0)), "Constraint2"),
       Constr(Lin([x1 |-> Lit(0, 6), x2 |-> Lit(0, 4)]), "<=", Num(Lit(6, 0)), "Constraint3"),
       Linking("x1", "y1", "Linking_x1_y1"),
       Linking("x2", "y2", "Linking_x2_y2") >>

RadiationConstraints ==
    << Constr(Lin([x1 |-> Lit(0, 3), x2 |-> Lit(0, 1)]), "<=", Num(Lit(2, 7)), "Constraint1"),
       Constr(Lin([x1 |-> Lit(0, 5), x2 |-> Lit(0, 5)]), "==", Num(Lit(6, 0)), "Constraint2"),
       Constr(Lin([x1 |-> Lit(0, 6), x2 |-> Lit(0, 4)]), ">=", Num(Lit(6, 0)), "Constraint3"),
       Linking("x1", "y1", "Linking_x1_y1"),
       Linking("x2", "y2", "Linking_x2_y2") >>

RadiationReport ==
    [op |-> "report",
     shown |-> << [ident |-> "x1", text |-> "  x1 (Treatment intensity 1) = "],
                  [ident |-> "x2", text |-> "  x2 (Treatment intensity 2) = "],
                  [ident |-> "y1", text |-> "  y1 (Placement decision 1) = "],
                  [ident |-> "y2", text |-> "  y2 (Placement decision 2) = "] >>,
     objText |-> "  Minimum impact (Z) = "]

RadiationProgram ==
    << [op |-> "Model", name |-> "Radiation_Therapy_Optimization"] >>
    \o RadiationVariables \o << RadiationObjective >> \o RadiationConstraints
    \o << [op |-> "optimize"], RadiationReport >>

\* The output the notebooks record for their report cells.
WyndorRecorded ==
    << "Optimal solution found:",
       "  x1 (Product 1 batches per week) = 2.0",
       "  x2 (Product 2 batches per week) = 6.0",
       "  Maximum Profit (in thousands of dollars) = 36.0" >>

RadiationRecorded ==
    << "Optimal solution found:",
       "  x1 (Treatment intensity 1) = 7.5",
       "  x2 (Treatment intensity 2) = 4.5",
       "  y1 (Placement decision 1) = 1.0",
       "  y2 (Placement decision 2) = 1.0",
       "  Minimum impact (Z) = 5.25" >>

Notebooks == {"Wyndor", "Radiation"}

Program(i) == IF i = "Wyndor" THEN WyndorProgram ELSE RadiationProgram


(***************************** executing statements ************************)
NoCall == [op |-> ""]
\* last: the statement run last, what it raised ("" nothing), and the Model
\* as it was before the statement.
Idle == [op |-> "", call |-> NoCall, raised |-> "", pre |-> NoModel]

\* What statement c does to an instance (Model m, namespace e, printed o),
\* the solver answering r when c is optimize.  A call on model before
\* gp.Model(..) has bound it raises NameError.  gp.Model(..) starts from a
\* namespace without Vars: the notebooks run it first, in a fresh kernel.
Exec(m, e, o, c, r) ==
    IF c.op = "Model"
    THEN [model |-> NewModel(c.name), env |-> EmptyEnv, out |-> o, raised |-> ""]
    ELSE IF ~m.created
    THEN [model |-> m, env |-> e, out |-> o, raised |-> "NameError"]
    ELSE CASE c.op = "addVar" ->
                LET a == addVar(m, e, c)
                IN [model |-> a.model, env |-> a.env, out |-> o, raised |-> a.raised]
           [] c.op = "setObjective" ->
                LET a == setObjective(m, e, c)
                IN [model |-> a.model, env |-> a.env, out |-> o, raised |-> a.raised]
           [] c.op = "addConstr" ->
                LET a == addConstr(m, e, c)
                IN [model |-> a.model, env |-> a.env, out |-> o, raised |-> a.raised]
           [] c.op = "optimize" ->
                [model |-> optimize(m, r), env |-> e, out |-> o, raised |-> ""]
           [] c.op = "report" ->
                LET a == report(m, e, c)
                IN [model |-> m, env |-> e, out |-> a.out, raised |-> a.raised]

NoAnswer == [status |-> "LOADED", x |-> <<>>, objVal |-> 0]

\* The answers the solver may give when c is run on m.
Answers(m, c) == IF c.op = "optimize" /\ m.created THEN SolveResults(m) ELSE {NoAnswer}

\* A statement run on one name model that all instances share.
StepShared(i, c) ==
    \E r \in Answers(model[i], c) :
        LET a == Exec(model[i], env[i], out[i], c, r)
        IN /\ pc' = [pc EXCEPT ![i] = @ + 1]
           /\ model' = [j \in DOMAIN model |-> a.model]
           /\ env' = [env EXCEPT ![i] = a.env]
           /\ out' = [out EXCEPT ![i] = a.out]
           /\ last' = [last EXCEPT ![i] = [op |-> c.op, call |-> c, raised |-> a.raised,
                                                pre |-> model[i]]]

\* Instance i runs statement c.
Step(i, c) ==
    \E r \in Answers(model[i], c) :
        LET a == Exec(model[i], env[i], out[i], c, r)
        IN /\ pc' = [pc EXCEPT ![i] = @ + 1]
           /\ model' = [model EXCEPT ![i] = a.model]
           /\ env' = [env EXCEPT ![i] = a.env]
           /\ out' = [out EXCEPT ![i] = a.out]
           /\ last' = [last EXCEPT ![i] = [op |-> c.op, call |-> c, raised |-> a.raised,
                                                pre |-> model[i]]]

(***************************** the notebooks run ****************************)
\* A run that goes on to the next cell after a cell has raised.
RunningPastErrors(i) == pc[i] < Len(Program(i))

\* A run that stops before the last cell.
RunningStopsShort(i) == pc[i] < Len(Program(i)) - 1 /\ last[i].raised = ""

\* The statement a notebook runs next; a raised exception stops the run.
Running(i) == pc[i] < Len(Program(i)) /\ last[i].raised = ""
NextStmt(i) == Program(i)[pc[i] + 1]

CreateModel(i) == Running(i) /\ NextStmt(i).op = "Model" /\ Step(i, NextStmt(i))
DeclareVariable(i) == Running(i) /\ NextStmt(i).op = "addVar" /\ Step(i, NextStmt(i))
SetObjective(i) == Running(i) /\ NextStmt(i).op = "setObjective" /\ Step(i, NextStmt(i))
AddConstraint(i) == Running(i) /\ NextStmt(i).op = "addConstr" /\ Step(i, NextStmt(i))
Solve(i) == Running(i) /\ NextStmt(i).op = "optimize" /\ Step(i, NextStmt(i))
Report(i) == Running(i) /\ NextStmt(i).op = "report" /\ Step(i, NextStmt(i))

InitOn(I) ==
    /\ pc = [i \in I |-> 0]
    /\ model = [i \in I |-> NoModel]
    /\ env = [i \in I |-> EmptyEnv]
    /\ out = [i \in I |-> <<>>]
    /\ last = [i \in I |-> Idle]

Init == InitOn(Notebooks)

Next ==
    \E i \in Notebooks :
        \/ CreateModel(i)
        \/ DeclareVariable(i)
        \/ SetObjective(i)
        \/ AddConstraint(i)
        \/ Solve(i)
        \/ Report(i)

Spec == Init /\ [][Next]_vars

\* The statements of notebook i.
Run(i) ==
    \/ CreateModel(i)
    \/ DeclareVariable(i)
    \/ SetObjective(i)
    \/ AddConstraint(i)
    \/ Solve(i)
    \/ Report(i)

\* Run All: a notebook that has a cell left to run runs it.
FairSpec == Spec /\ \A i \in Notebooks : WF_vars(Run(i))

\* model = gp.Model(..) on a machine where the solver cannot be initialised
\* (no library, no licence): the statement raises, model stays unbound.
CreateModelFails(i) ==
    /\ Running(i)
    /\ NextStmt(i).op = "Model"
    /\ pc' = [pc EXCEPT ![i] = @ + 1]
    /\ last' = [last EXCEPT ![i] = [op |-> "Model", call |-> NextStmt(i),
                                     raised |-> "GurobiError", pre |-> model[i]]]
    /\ UNCHANGED <<model, env, out>>

\* The notebooks on a machine that may lack the solver.
NextEnv ==
    \/ Next
    \/ \E i \in Notebooks : CreateModelFails(i)

SpecEnv == Init /\ [][NextEnv]_vars


(***************************** a free client *******************************)
\* The same calls made by a caller that is not one of the two notebooks:
\* any declaration, objective or constraint of a small menu, in any order
\* (each identifier bound once, as in the notebooks), then one optimize; the
\* report cell may be run at any time.

\* x1 = model.addVar(name='x1', lb=0); x2 = model.addVar(name='x1', lb=0, ub=3),
\* whose name is taken once x1 is declared; y1 = model.addVar(name='y1', vtype=GRB.BINARY);
\* y2 = model.addVar(name='y2', vtype=GRB.BINARY, lb=1, ub=1), a BINARY Var
\* declared with bounds of its own.
VarMenu ==
    { ContinuousVar("x1"),
      [op |-> "addVar", ident |-> "x2", name |-> "x1", vtype |-> "CONTINUOUS",
       lb |-> 0, hasUb |-> TRUE, ub |-> 3],
      BinaryVar("y1"),
      [op |-> "addVar", ident |-> "y2", name |-> "y2", vtype |-> "BINARY",
       lb |-> 1, hasUb |-> TRUE, ub |-> 1] }

ObjMenu ==
    { [op |-> "setObjective", expr |-> Lin([x1 |-> Lit(1, 0)]), sense |-> "MAXIMIZE"],
      [op |-> "setObjective", expr |-> Lin([x1 |-> Lit(1, 0), y1 |-> Lit(1, 0)]),
       sense |-> "MINIMIZE"] }

\* c1 and c2 contradict each other over x1; the third takes the name c1
\* again; the last links x1 to y1 as the Radiation notebook does.
ConstrMenu ==
    { Constr(Lin([x1 |-> Lit(1, 0)]), "<=", Num(Lit(2, 0)), "c1"),
      Constr(Lin([x1 |-> Lit(1, 0)]), ">=", Num(Lit(3, 0)), "c2"),
      Constr(Lin([x2 |-> Lit(1, 0)]), "<=", Num(Lit(1, 0)), "c1"),
      Linking("x1", "y1", "Linking_x1_y1") }

IdentOrder == <<"x1", "x2", "y1", "y2">>

IsBound(e, id) == e[id] # 0

\* The client's report cell: one print per identifier it has bound.
ClientReport(e) ==
    LET bound == SelectSeq(IdentOrder, LAMBDA id : IsBound(e, id))
    IN [op |-> "report",
        shown |-> [k \in 1..Len(bound) |-> [ident |-> bound[k], text |-> "  " \o bound[k] \o " = "]],
        objText |-> "  objective = "]

Client == "Client"

Calling == pc[Client] < MaxCalls
Building == Calling /\ model[Client].created /\ model[Client].status = "LOADED"

ClientCreateModel ==
    Calling /\ ~model[Client].created /\ Step(Client, [op |-> "Model", name |-> "Client"])
ClientDeclareVariable ==
    Building /\ \E c \in VarMenu : ~IsBound(env[Client], c.ident) /\ Step(Client, c)
ClientSetObjective == Building /\ \E c \in ObjMenu : Step(Client, c)
ClientAddConstraint == Building /\ \E c \in ConstrMenu : Step(Client, c)
ClientSolve == Building /\ Step(Client, [op |-> "optimize"])
ClientRunReport ==
    Calling /\ model[Client].created /\ Step(Client, ClientReport(env[Client]))

InitAPI == InitOn({Client})

NextAPI ==
    \/ ClientCreateModel
    \/ ClientDeclareVariable
    \/ ClientSetObjective
    \/ ClientAddConstraint
    \/ ClientSolve
    \/ ClientRunReport

SpecAPI == InitAPI /\ [][NextAPI]_vars


(***************************** properties **********************************)
\* Notebook i has run a statement o.
Ran(i, o) == \E k \in 1..pc[i] : Program(i)[k].op = o

\* The decimal literal of t tenths as a value (in 1/L).
Val(t) == (t * L) \div 10

\* C1: once the Wyndor notebook has run optimize, its Model is OPTIMAL with
\* x1 = 2, x2 = 6 and objective 36; (2, 6) satisfies every row and no
\* feasible point has an objective above 36; the report cell then prints the
\* recorded lines x1 = 2.0, x2 = 6.0, 36.0.
C1_WyndorOptimum ==
    LET m == model["Wyndor"]
    IN /\ Ran("Wyndor", "optimize") =>
            /\ m.status = "OPTIMAL"
            /\ m.x = <<Val(Lit(2, 0)), Val(Lit(6, 0))>>
            /\ m.objVal = Lit(36, 0) * L
            /\ Feasible(m, <<Val(Lit(2, 0)), Val(Lit(6, 0))>>)
            /\ \A a \in FeasibleSet(m) : ObjAt(m, a) <= Lit(36, 0) * L
       /\ Ran("Wyndor", "report") =>
            /\ last["Wyndor"].raised = ""
            /\ out["Wyndor"] = WyndorRecorded

C1_Witness ==
    /\ Ran("Wyndor", "report")
    /\ model["Wyndor"].status = "OPTIMAL"
    /\ Len(model["Wyndor"].constrs) = 3

\* C2: once the Radiation notebook has run optimize, its Model is OPTIMAL
\* with x1 = 7.5, x2 = 4.5, y1 = 1, y2 = 1 and objective 5.25; that point
\* satisfies every row and no feasible point has an objective below 5.25; the
\* report cell then prints the recorded lines.
C2_RadiationOptimum ==
    LET m == model["Radiation"]
        p == <<Val(Lit(7, 5)), Val(Lit(4, 5)), Val(Lit(1, 0)), Val(Lit(1, 0))>>
    IN /\ Ran("Radiation", "optimize") =>
            /\ m.status = "OPTIMAL"
            /\ m.x = p
            /\ m.objVal * 10 = Lit(52, 5) * L
            /\ Feasible(m, p)
            /\ \A a \in FeasibleSet(m) : ObjAt(m, a) * 10 >= Lit(52, 5) * L
       /\ Ran("Radiation", "report") =>
            /\ last["Radiation"].raised = ""
            /\ out["Radiation"] = RadiationRecorded

C2_Witness ==
    /\ Ran("Radiation", "report")
    /\ model["Radiation"].status = "OPTIMAL"
    /\ Len(model["Radiation"].constrs) = 5


\* C3: what the report cell prints depends on the status alone.  With status
\* OPTIMAL it prints the header, one line with the value of every declared
\* Var, and the objective value; with any other status (no solve yet,
\* INFEASIBLE, UNBOUNDED) it prints the single line "No optimal solution
\* found.", no value, and raises nothing.  No value is read from a Model
\* that holds no solution (that read would raise).
C3_ReportByStatus ==
    \A i \in DOMAIN pc :
        last[i].op = "report" =>
            LET m == model[i]
                shown == last[i].call.shown
            IN /\ last[i].raised = ""
               /\ IF m.status = "OPTIMAL"
                  THEN /\ Len(out[i]) = Len(shown) + 2
                       /\ out[i][1] = "Optimal solution found:"
                       /\ \A k \in 1..Len(shown) :
                            out[i][k + 1] =
                                shown[k].text \o FloatStr(m.x[env[i][shown[k].ident]], L)
                       /\ \A j \in 1..Len(m.vars) :
                            \E k \in 1..Len(shown) : env[i][shown[k].ident] = j
                       /\ out[i][Len(shown) + 2] =
                            last[i].call.objText \o FloatStr(m.objVal, 10 * L)
                  ELSE out[i] = <<"No optimal solution found.">>

C3_Witness ==
    /\ last[Client].op = "report"
    /\ model[Client].status = "UNBOUNDED"
    /\ Len(model[Client].vars) > 0


\* Rows a and b bound the same single Var (positive coefficients) and no
\* real value satisfies both: an upper limit of one lies below a lower limit
\* of the other.
Clash(a, b) ==
    /\ Cardinality(DOMAIN a.terms) = 1
    /\ DOMAIN a.terms = DOMAIN b.terms
    /\ LET v == CHOOSE j \in DOMAIN a.terms : TRUE
       IN /\ a.terms[v] > 0
          /\ b.terms[v] > 0
          /\ a.op \in {"<=", "=="}
          /\ b.op \in {">=", "=="}
          /\ a.rhs * b.terms[v] < b.rhs * a.terms[v]

Contradictory(m) ==
    \E i, j \in 1..Len(m.constrs) : Clash(m.constrs[i], m.constrs[j])

\* C4: a Model holding two rows over the same Var that contradict each other
\* is answered INFEASIBLE by optimize, which raises nothing; the report cell
\* run after it prints "No optimal solution found." and no value.
C4_ContradictionInfeasible ==
    \A i \in DOMAIN pc :
        (Contradictory(model[i]) /\ model[i].status # "LOADED") =>
            /\ model[i].status = "INFEASIBLE"
            /\ last[i].raised = ""
            /\ last[i].op = "report" => out[i] = <<"No optimal solution found.">>

C4_Witness ==
    /\ Contradictory(model[Client])
    /\ model[Client].status = "INFEASIBLE"
    /\ last[Client].op = "report"
    /\ Len(model[Client].vars) > 0


VarNames(m) == {m.vars[j].name : j \in 1..Len(m.vars)}
ConstrNames(m) == {m.constrs[j].name : j \in 1..Len(m.constrs)}

\* C5 (as the specification states it): addVar with a name that a Var of the
\* Model already has fails with DuplicateNameError and leaves the Vars of
\* the Model as they were.
C5_DuplicateVariableRejected ==
    \A i \in DOMAIN pc :
        (last[i].op = "addVar" /\ last[i].call.name \in VarNames(last[i].pre)) =>
            /\ last[i].raised = "DuplicateNameError"
            /\ model[i].vars = last[i].pre.vars

C7_DuplicateConstraintRejected ==
    \A i \in DOMAIN pc :
        /\ (last[i].op = "addConstr" /\ last[i].call.name \in ConstrNames(last[i].pre)) =>
                /\ last[i].raised = "DuplicateNameError"
                /\ model[i].constrs = last[i].pre.constrs
        /\ \A a, b \in 1..Len(model[i].constrs) :
                a # b => model[i].constrs[a].name # model[i].constrs[b].name


\* Value v (in 1/L) is one a Var of kind vtype with bounds lb, ub may take.
Within(v, vtype, lb, hasUb, ub) ==
    IF vtype = "BINARY" THEN v \in {0, L}
    ELSE lb * L <= v /\ (hasUb => v <= ub * L)

\* C8: in a Model with status OPTIMAL every Var has a value, a BINARY Var
\* has the value 0 or 1, and a CONTINUOUS Var has a value within its bounds,
\* those the Model holds and those its addVar call declared (lower bound 0,
\* the upper bound when one is given).
C8_ValuesWithinBounds ==
    \A i \in DOMAIN pc :
        model[i].status = "OPTIMAL" =>
            LET m == model[i]
            IN /\ Len(m.x) = Len(m.vars)
               /\ \A j \in 1..Len(m.vars) :
                    Within(m.x[j], m.vars[j].vtype, m.vars[j].lb, m.vars[j].hasUb, m.vars[j].ub)
               /\ i = Client =>
                    \A c \in VarMenu :
                        IsBound(env[i], c.ident) =>
                            Within(m.x[env[i][c.ident]], c.vtype, c.lb, c.hasUb, c.ub)

C8_Witness ==
    /\ model[Client].status = "OPTIMAL"
    /\ IsBound(env[Client], "x2")
    /\ IsBound(env[Client], "y1")
    /\ model[Client].x[env[Client]["x2"]] = 3 * L
    /\ model[Client].x[env[Client]["y1"]] = L


\* The phase a statement brings the workflow to: Empty Model, Variables
\* Declared, Objective Set, Constraints Added, Solved, Reported.
Phase(o) ==
    CASE o = "" -> 0
      [] o = "Model" -> 1
      [] o = "addVar" -> 2
      [] o = "setObjective" -> 3
      [] o = "addConstr" -> 4
      [] o = "optimize" -> 5
      [] o = "report" -> 6

\* C10: no step of a notebook brings its workflow back to an earlier phase,
\* and from the moment optimize has run the Vars, the objective and the rows
\* of its Model stay as they were at the solve.
C10_ForwardOnly ==
    [][\A i \in DOMAIN pc :
            /\ Phase(last'[i].op) >= Phase(last[i].op)
            /\ model[i].status # "LOADED" =>
                    /\ model'[i].vars = model[i].vars
                    /\ model'[i].obj = model[i].obj
                    /\ model'[i].constrs = model[i].constrs]_vars

C10_Witness ==
    \A i \in Notebooks :
        /\ last[i].op = "report"
        /\ model[i].status # "LOADED"
        /\ pc[i] = Len(Program(i))

\* The pairs (x, y) of Vars of m, x CONTINUOUS with lower bound 0 and y
\* BINARY, that a row of m links as addConstr(x <= M * y) builds it.
Linked(m, e) ==
    {p \in (1..Len(m.vars)) \X (1..Len(m.vars)) :
        /\ m.vars[p[1]].vtype = "CONTINUOUS"
        /\ m.vars[p[1]].lb = 0
        /\ m.vars[p[2]].vtype = "BINARY"
        /\ \E idx, idy \in Idents :
                /\ e[idx] = p[1]
                /\ e[idy] = p[2]
                /\ \E k \in 1..Len(m.constrs) :
                        LET c == Linking(idx, idy, m.constrs[k].name)
                        IN m.constrs[k] = Row(e, c.lhs, c.rel, c.rhs, c.name)}

\* At a, x is 0 when y is 0 and y is 1 when x is positive.
LinkKept(a, p) == (a[p[2]] = 0 => a[p[1]] = 0) /\ (a[p[1]] > 0 => a[p[2]] = L)

\* C11: in a Model that holds the row of x <= M * y, x CONTINUOUS with lower
\* bound 0 and y BINARY, every assignment that satisfies the rows has x = 0
\* when y = 0 and y = 1 when x > 0; so has the solution optimize stores.
C11_BigMLinking ==
    \A i \in DOMAIN pc :
        \A p \in Linked(model[i], env[i]) :
            /\ \A a \in FeasibleSet(model[i]) : LinkKept(a, p)
            /\ model[i].status = "OPTIMAL" => LinkKept(model[i].x, p)

C11_Witness ==
    /\ model[Client].status = "OPTIMAL"
    /\ \E p \in Linked(model[Client], env[Client]) :
            /\ model[Client].x[p[1]] = 0
            /\ model[Client].x[p[2]] = 0
            /\ \E a \in FeasibleSet(model[Client]) : a[p[1]] > 0 /\ a[p[2]] = L

\* m without the rows that read a BINARY Var: the Radiation Model before its
\* two linking constraints.
Unlinked(m) ==
    [m EXCEPT !.constrs =
        SelectSeq(@, LAMBDA c : \A j \in DOMAIN c.terms : m.vars[j].vtype # "BINARY")]

\* What an answer of the solver says about x1, x2 and the objective.
Outcome(r, e) ==
    IF r.status = "OPTIMAL" THEN <<r.status, r.x[e["x1"]], r.x[e["x2"]], r.objVal>>
    ELSE <<r.status>>

\* C12: M = 10 is a valid Big-M of the Radiation Model.  Every assignment
\* with x1, x2 >= 0 that satisfies Constraint1..3 has x1 <= 10 and x2 <= 10
\* and, with y1 = y2 = 1, satisfies the two linking rows as well; the x1, x2
\* and objective the solver may answer for the Model with the linking rows
\* are those it may answer for the Model without them, and they are what
\* optimize stores.
C12_BigMValid ==
    LET m == model["Radiation"]
        e == env["Radiation"]
        u == Unlinked(m)
    IN Len(m.constrs) = Len(RadiationConstraints) =>
        /\ Len(u.constrs) = 3
        /\ \A a \in FeasibleSet(u) :
                /\ a[e["x1"]] <= M * L
                /\ a[e["x2"]] <= M * L
                /\ Feasible(m, [a EXCEPT ![e["y1"]] = L, ![e["y2"]] = L])
        /\ {Outcome(r, e) : r \in SolveResults(m)} = {Outcome(r, e) : r \in SolveResults(u)}
        /\ m.status # "LOADED" =>
                Outcome([status |-> m.status, x |-> m.x, objVal |-> m.objVal], e)
                    \in {Outcome(r, e) : r \in SolveResults(u)}

C12_Witness ==
    LET m == model["Radiation"]
        e == env["Radiation"]
    IN /\ Len(m.constrs) = Len(RadiationConstraints)
       /\ m.status = "OPTIMAL"
       /\ \E a \in FeasibleSet(Unlinked(m)) :
            /\ a[e["x1"]] = m.x[e["x1"]]
            /\ a[e["y1"]] = 0
            /\ ~Feasible(m, a)

\* The objective a setObjective statement c passes, over the Vars of e.
Passed(e, c) == [terms |-> Resolve(e, c.expr), const |-> c.expr.const, sense |-> c.sense]

\* C13: a setObjective call that returns leaves the Model with exactly the
\* expression and sense it passed, whatever objective was set before, and
\* leaves the Vars and the rows as they were; no other statement on an
\* existing Model touches the objective, so the objective is always that of
\* the last setObjective call that returned.
C13_ObjectiveReplaced ==
    [][\A i \in DOMAIN pc :
            pc'[i] # pc[i] =>
                IF last'[i].op = "setObjective" /\ last'[i].raised = ""
                THEN /\ model'[i].obj = Passed(env'[i], last'[i].call)
                     /\ model'[i].vars = model[i].vars
                     /\ model'[i].constrs = model[i].constrs
                ELSE last'[i].op # "Model" => model'[i].obj = model[i].obj]_vars

C13_Witness ==
    /\ last[Client].op = "setObjective"
    /\ last[Client].raised = ""
    /\ last[Client].pre.obj # DefaultObjective
    /\ last[Client].pre.obj # model[Client].obj
    /\ model[Client].obj = Passed(env[Client], last[Client].call)
    /\ Len(model[Client].constrs) > 0

\* C14 (as the specification states it): whatever addVar, setObjective and
\* addConstr calls were made, returned or raised, the names of the Vars of a
\* Model are pairwise distinct, the objective and every row read Vars of the
\* Model only, and a Var with an upper bound has its lower bound at most
\* that upper bound.
C14_DataModelInvariants ==
    \A i \in DOMAIN pc :
        LET m == model[i]
        IN /\ \A a, b \in 1..Len(m.vars) : a # b => m.vars[a].name # m.vars[b].name
           /\ DOMAIN m.obj.terms \subseteq 1..Len(m.vars)
           /\ \A k \in 1..Len(m.constrs) : DOMAIN m.constrs[k].terms \subseteq 1..Len(m.vars)
           /\ \A j \in 1..Len(m.vars) : m.vars[j].hasUb => m.vars[j].lb <= m.vars[j].ub

\* C15 (as the specification states it): a Var declared BINARY has the
\* bounds [0, 1] in the Model, whatever lb= and ub= its addVar call passed.
C15_BinaryBoundsForced ==
    \A i \in DOMAIN pc :
        \A j \in 1..Len(model[i].vars) :
            model[i].vars[j].vtype = "BINARY" =>
                /\ model[i].vars[j].lb = 0
                /\ model[i].vars[j].hasUb
                /\ model[i].vars[j].ub = 1

\* The optimize statements notebook i has run.
Solves(i) == Cardinality({k \in 1..pc[i] : Program(i)[k].op = "optimize"})

\* Notebook i has run its report cell, the last of its statements.
Reported(i) == pc[i] = Len(Program(i)) /\ last[i].op = "report" /\ last[i].raised = ""

\* C16: a notebook never runs optimize twice; its report cell runs only
\* after optimize has returned an answer, and prints either the values or
\* the no-solution line; and every run ends with each notebook Reported,
\* having run optimize exactly once.
C16_OneSolveThenReport ==
    /\ [](\A i \in Notebooks :
            /\ Solves(i) <= 1
            /\ Ran(i, "report") =>
                    /\ Solves(i) = 1
                    /\ model[i].status # "LOADED"
                    /\ out[i] # <<>>
                    /\ out[i][1] \in {"Optimal solution found:", "No optimal solution found."})
    /\ <>[](\A i \in Notebooks : Reported(i) /\ Solves(i) = 1)

C16_Witness ==
    \A i \in Notebooks :
        /\ Reported(i)
        /\ Solves(i) = 1
        /\ last[i].pre.status = "OPTIMAL"
        /\ Len(out[i]) = Len(last[i].call.shown) + 2

\* C17: when gp.Model(..) cannot initialise the solver, the error it raises
\* ends the run of the notebook after that one attempt: the statement is not
\* run again and no later cell runs, so optimize is never called, the Model
\* holds no status, value or objective of a solve, and nothing is reported.
C17_SolverUnavailable ==
    /\ [](\A i \in Notebooks :
            last[i].raised = "GurobiError" =>
                /\ last[i].op = "Model"
                /\ pc[i] = 1
                /\ Solves(i) = 0
                /\ ~model[i].created
                /\ model[i].status = "LOADED"
                /\ model[i].x = <<>>
                /\ ~Ran(i, "report")
                /\ out[i] = <<>>)
    /\ [][\A i \in Notebooks :
                last[i].raised = "GurobiError" =>
                    /\ pc'[i] = pc[i]
                    /\ last'[i] = last[i]
                    /\ model'[i] = model[i]
                    /\ out'[i] = out[i]]_vars

C17_Witness ==
    /\ last["Radiation"].raised = "GurobiError"
    /\ pc["Radiation"] = 1
    /\ Reported("Wyndor")

\* C18: every assignment that satisfies the five rows of the Radiation Model
\* has x1 >= 6 and x2 >= 4.5, both positive, and y1 = 1 and y2 = 1: none has
\* y1 = 0 or y2 = 0.  Constraint1..3 alone force x1 >= 6 and x2 >= 4.5.
C18_BinariesForced ==
    LET m == model["Radiation"]
        e == env["Radiation"]
    IN Len(m.constrs) = Len(RadiationConstraints) =>
        /\ \A a \in FeasibleSet(Unlinked(m)) :
                /\ a[e["x1"]] >= Val(Lit(6, 0))
                /\ a[e["x2"]] >= Val(Lit(4, 5))
        /\ \A a \in FeasibleSet(m) :
                /\ a[e["x1"]] >= Val(Lit(6, 0))
                /\ a[e["x2"]] >= Val(Lit(4, 5))
                /\ a[e["x1"]] > 0
                /\ a[e["x2"]] > 0
                /\ a[e["y1"]] = L
                /\ a[e["y2"]] = L

C18_Witness ==
    LET m == model["Radiation"]
        e == env["Radiation"]
    IN /\ Len(m.constrs) = Len(RadiationConstraints)
       /\ m.status = "LOADED"
       /\ \E a \in FeasibleSet(m) : a[e["x1"]] = Val(Lit(6, 0)) /\ a[e["y1"]] = L
       /\ \E a \in FeasibleSet(m) : a[e["x2"]] = Val(Lit(4, 5)) /\ a[e["y2"]] = L
       /\ \E a \in FeasibleSet(Unlinked(m)) : a[e["y1"]] = 0 /\ a[e["y2"]] = 0

\* The feasible assignments of m that no feasible assignment betters.
OptimalSet(m) ==
    UNION {{a \in F : \A b \in F : NoWorse(m, ObjAt(m, a), ObjAt(m, b))} : F \in {FeasibleSet(m)}}

\* C19: the optimum of each notebook's Model is unique.  (2, 6) is the only
\* assignment satisfying the rows of the Wyndor Model with objective 36 and
\* (7.5, 4.5, 1, 1) the only one of the Radiation Model with objective 5.25;
\* each is the whole set of optimal assignments, so the solver has a single
\* answer to give and the report cell a single output.
C19_UniqueOptimum ==
    LET w == model["Wyndor"]
        r == model["Radiation"]
        pw == <<Val(Lit(2, 0)), Val(Lit(6, 0))>>
        pr == <<Val(Lit(7, 5)), Val(Lit(4, 5)), Val(Lit(1, 0)), Val(Lit(1, 0))>>
    IN /\ Len(w.constrs) = Len(WyndorConstraints) =>
            /\ {a \in FeasibleSet(w) : ObjAt(w, a) = Lit(36, 0) * L} = {pw}
            /\ OptimalSet(w) = {pw}
            /\ Cardinality(SolveResults(w)) = 1
            /\ w.status = "OPTIMAL" => w.x = pw
       /\ Len(r.constrs) = Len(RadiationConstraints) =>
            /\ {a \in FeasibleSet(r) : ObjAt(r, a) * 10 = Lit(52, 5) * L} = {pr}
            /\ OptimalSet(r) = {pr}
            /\ Cardinality(SolveResults(r)) = 1
            /\ r.status = "OPTIMAL" => r.x = pr

C19_Witness ==
    /\ model["Wyndor"].status = "OPTIMAL"
    /\ model["Radiation"].status = "OPTIMAL"
    /\ Cardinality(FeasibleSet(model["Wyndor"])) > 1
    /\ Cardinality(FeasibleSet(model["Radiation"])) > 1
    /\ model["Wyndor"].x \in OptimalSet(model["Wyndor"])
    /\ model["Radiation"].x \in OptimalSet(model["Radiation"])

\* The statements of kind o among the first n of notebook i.
Count(i, o, n) == Cardinality({k \in 1..n : Program(i)[k].op = o})

\* C20: each notebook has a Model of its own.  A step of one notebook
\* leaves the Model (Vars, objective, rows, status, values, objective
\* value), the namespace and the output of the other as they were; in every
\* interleaving of the two runs the Model of a notebook holds what its own
\* statements put there, and the two Models are distinct objects.
C20_InstancesIsolated ==
    /\ [](\A i \in Notebooks :
            model[i].created =>
                /\ model[i].name = Program(i)[1].name
                /\ Len(model[i].vars) = Count(i, "addVar", pc[i])
                /\ Len(model[i].constrs) = Count(i, "addConstr", pc[i])
                /\ (model[i].obj # DefaultObjective) = (Count(i, "setObjective", pc[i]) > 0)
                /\ (model[i].status # "LOADED") = (Count(i, "optimize", pc[i]) > 0)
                /\ \A j \in Notebooks \ {i} : model[j].created => model[j].name # model[i].name)
    /\ [][\A i \in Notebooks :
                pc'[i] = pc[i] =>
                    /\ model'[i] = model[i]
                    /\ env'[i] = env[i]
                    /\ out'[i] = out[i]
                    /\ last'[i] = last[i]]_vars

C20_Witness ==
    /\ model["Wyndor"].status = "OPTIMAL"
    /\ last["Wyndor"].op = "optimize"
    /\ model["Radiation"].status = "LOADED"
    /\ last["Radiation"].op = "addConstr"
    /\ Len(model["Radiation"].constrs) = 2
    /\ Len(model["Radiation"].vars) = 4
    /\ Len(model["Wyndor"].vars) = 2


====
